---------------------------- MODULE Spec2Model ----------------------------
(***************************************************************************)
(* A model of python-playmeapi (playme/core.py, playme/item.py,            *)
(* playme/api.py): QueryString, Request, Response, ResponseStatus, Method, *)
(* Item and ItemsCollection.                                               *)
(*                                                                         *)
(* Python values are tagged records [t |-> tag, v |-> payload].  A str is  *)
(* a sequence of one-character strings, so that sorting, str(), int() and  *)
(* percent-encoding work on characters.  A dict is a sequence of           *)
(* <<key, value>> pairs with distinct keys: the order of the sequence is   *)
(* the dict's native iteration order, which Python 2 leaves unspecified;   *)
(* it is modelled as insertion order and the inputs range over every       *)
(* insertion order.                                                        *)
(***************************************************************************)
EXTENDS Integers, Sequences, FiniteSets, TLC

VARIABLES
    params,     \* the parameter list the caller holds
    queries,    \* SpecQuery: the QueryString objects built so far
    target,     \* the API method name the caller addresses
    heap,       \* the objects held by reference: in SpecRequest the
                \* QueryString of the caller, in SpecFetch the Responses
    requests,   \* SpecRequest: the Request objects built so far
    body,       \* SpecResponse: the body text the server sends;
                \* SpecEntity: the reply the server gives to every call
    parsed,     \* SpecResponse: the outcome of Response(body)
    status,     \* SpecResponse: the outcome of reading .status
    request,    \* SpecFetch: the one Request instance, with its _response
    gets,       \* SpecFetch: the URLs fetched so far, oldest first
    accesses,   \* SpecFetch: the outcome of every read of .response so far
    fields,     \* SpecItem: the keyword data an Item is built from
    elems,      \* SpecCollection: the elements a collection is built from
    built       \* SpecItem/SpecCollection/SpecEntity: what was built so far

queryVars == <<params, queries, target, heap, requests>>
responseVars == <<body, parsed, status>>
fetchVars == <<request, gets, accesses>>
itemVars == <<fields, elems, built>>
vars == <<queryVars, responseVars, fetchVars, itemVars>>

\* The variables a specification does not use keep these values.
NoQuery ==
    params = <<>> /\ queries = {} /\ target = <<>> /\ heap = <<>>
    /\ requests = {}
NoResponse == body = <<>> /\ parsed = <<>> /\ status = <<>>
NoFetch == request = <<>> /\ gets = <<>> /\ accesses = <<>>
NoItem == fields = <<>> /\ elems = <<>> /\ built = {}

(***************************************************************************)
(* Bounds of the model.                                                    *)
(***************************************************************************)
MaxParams == 2      \* parameters in one parameter set
MaxQueries == 2     \* QueryString objects alive at once
MaxRequests == 2    \* Request objects alive at once
MaxAccesses == 3    \* reads of one Request's response property
MaxSiblings == 2    \* fields beside the wrapper in one payload
MaxElems == 3       \* elements a collection is built from
MaxChain == 3       \* attribute accesses on the Methods of one root

(***************************************************************************)
(* Python values.                                                          *)
(***************************************************************************)
NoneV == [t |-> "none", v |-> 0]
IntV(n) == [t |-> "int", v |-> n]
StrV(s) == [t |-> "str", v |-> s]
ListV(xs) == [t |-> "list", v |-> xs]
DictV(d) == [t |-> "dict", v |-> d]

\* An exception raised instead of a value.
Raise(exc) == [t |-> "raise", v |-> [exc |-> exc, args |-> <<>>]]
RaiseWith(exc, arg) == [t |-> "raise", v |-> [exc |-> exc, args |-> <<arg>>]]
Raised(x) == x.t = "raise"

(***************************************************************************)
(* Characters: printable ASCII, in code order from 32 (space) to 126 (~).  *)
(* The grave accent (code 96) is written GRAVE.                            *)
(***************************************************************************)
Printable ==
    <<" ", "!", "\"", "#", "$", "%", "&", "'", "(", ")", "*", "+", ",", "-",
      ".", "/", "0", "1", "2", "3", "4", "5", "6", "7", "8", "9", ":", ";",
      "<", "=", ">", "?", "@", "A", "B", "C", "D", "E", "F", "G", "H", "I",
      "J", "K", "L", "M", "N", "O", "P", "Q", "R", "S", "T", "U", "V", "W",
      "X", "Y", "Z", "[", "\\", "]", "^", "_", "GRAVE", "a", "b", "c", "d", "e",
      "f", "g", "h", "i", "j", "k", "l", "m", "n", "o", "p", "q", "r", "s",
      "t", "u", "v", "w", "x", "y", "z", "{", "|", "}", "~">>

\* ord(c)
OrdTable ==
    [c \in {Printable[i] : i \in 1..Len(Printable)} |->
        31 + (CHOOSE i \in 1..Len(Printable) : Printable[i] = c)]
Ord(c) == OrdTable[c]

Digits == <<"0", "1", "2", "3", "4", "5", "6", "7", "8", "9">>
HexDigits ==
    <<"0", "1", "2", "3", "4", "5", "6", "7", "8", "9", "A", "B", "C", "D",
      "E", "F">>

IsDigit(c) == \E i \in 1..Len(Digits) : Digits[i] = c
DigitVal(c) == (CHOOSE i \in 1..Len(Digits) : Digits[i] = c) - 1

\* The comparison of two str objects: byte-wise lexicographic.
StrLess(a, b) ==
    \E i \in 1..Len(b) :
        /\ i <= Len(a) + 1
        /\ \A j \in 1..(i - 1) : a[j] = b[j]
        /\ \/ i = Len(a) + 1
           \/ i <= Len(a) /\ Ord(a[i]) < Ord(b[i])

\* str(n) for an int n: the decimal digits, with a sign when negative.
RECURSIVE NatToStr(_)
NatToStr(n) ==
    IF n < 10 THEN <<Digits[n + 1]>>
    ELSE NatToStr(n \div 10) \o <<Digits[(n % 10) + 1]>>

IntToStr(n) == IF n < 0 THEN <<"-">> \o NatToStr(-n) ELSE NatToStr(n)

\* str(v) of a scalar value; a str is its own str().
PyStr(x) ==
    CASE x.t = "int" -> IntToStr(x.v)
      [] x.t = "str" -> x.v
      [] x.t = "none" -> <<"N", "o", "n", "e">>

\* s.encode(utf-8) of a str: the bytes themselves when they are all ASCII
\* (a str is first decoded as ASCII), UnicodeDecodeError otherwise.
EncodeUtf8(s) ==
    IF \A i \in 1..Len(s) : Ord(s[i]) < 128
    THEN StrV(s) ELSE Raise("UnicodeDecodeError")

(***************************************************************************)
(* dict: a sequence of <<key, value>> pairs with distinct keys.            *)
(***************************************************************************)
Keys(d) == [i \in 1..Len(d) |-> d[i][1]]
HasKey(d, k) == \E i \in 1..Len(d) : d[i][1] = k
Get(d, k) == d[CHOOSE i \in 1..Len(d) : d[i][1] = k][2]

\* d[k] = v: the value is replaced in place, a new key is added.
Put(d, k, v) ==
    IF HasKey(d, k)
    THEN [i \in 1..Len(d) |-> IF d[i][1] = k THEN <<k, v>> ELSE d[i]]
    ELSE Append(d, <<k, v>>)

\* d.update(e) for a dict e.
RECURSIVE Update(_, _)
Update(d, e) ==
    IF e = <<>> THEN d
    ELSE Update(Put(d, Head(e)[1], Head(e)[2]), Tail(e))

\* del d[k]
RECURSIVE Del(_, _)
Del(d, k) ==
    IF d = <<>> THEN <<>>
    ELSE IF Head(d)[1] = k THEN Tail(d)
    ELSE <<Head(d)>> \o Del(Tail(d), k)

(***************************************************************************)
(* list.sort() on a list of str keys.                                      *)
(***************************************************************************)
RECURSIVE InsertKey(_, _)
InsertKey(k, ks) ==
    IF ks = <<>> THEN <<k>>
    ELSE IF StrLess(Head(ks).v, k.v) THEN <<Head(ks)>> \o InsertKey(k, Tail(ks))
    ELSE <<k>> \o ks

RECURSIVE Sort(_)
Sort(ks) == IF ks = <<>> THEN <<>> ELSE InsertKey(Head(ks), Sort(Tail(ks)))

(***************************************************************************)
(* urllib.quote_plus and urllib.urlencode.                                 *)
(***************************************************************************)
\* The characters quote_plus leaves as they are: letters, digits, _ . -
AlwaysSafe ==
    {c \in DOMAIN OrdTable :
        \/ c \in {"_", ".", "-"}
        \/ Ord(c) \in 48..57
        \/ Ord(c) \in 65..90
        \/ Ord(c) \in 97..122}

QuoteChar(c) ==
    IF c \in AlwaysSafe THEN <<c>>
    ELSE IF c = " " THEN <<"+">>
    ELSE <<"%", HexDigits[(Ord(c) \div 16) + 1], HexDigits[(Ord(c) % 16) + 1]>>

RECURSIVE QuotePlus(_)
QuotePlus(s) ==
    IF s = <<>> THEN <<>> ELSE QuoteChar(Head(s)) \o QuotePlus(Tail(s))

\* urlencode(query) without doseq, on the sequence of pairs query.items()
\* gave: quote_plus(str(k)) + = + quote_plus(str(v)), joined by &.
RECURSIVE UrlEncode(_)
UrlEncode(items) ==
    IF items = <<>> THEN <<>>
    ELSE LET k == QuotePlus(PyStr(Head(items)[1]))
             v == QuotePlus(PyStr(Head(items)[2]))
         IN  k \o <<"=">> \o v \o
             (IF Tail(items) = <<>> THEN <<>>
              ELSE <<"&">> \o UrlEncode(Tail(items)))

(***************************************************************************)
(* hash() of a str.  The built-in is a function of the characters and of   *)
(* their order, and not one to one.  The model keeps the multiplier and    *)
(* the length term of CPython 2 (string_hash: x = 1000003*x ^ c for each   *)
(* character c, then x ^= len) in 15 bits, with + for ^, which makes the   *)
(* hash of a str a combination of the hashes of its two halves.            *)
(***************************************************************************)
HashMod == 2 ^ 15
HashMult == 1000003 % HashMod

\* HashMult to the power k.
RECURSIVE HashPow(_)
HashPow(k) ==
    IF k = 0 THEN 1
    ELSE LET h == HashPow(k \div 2)
         IN  (((h * h) % HashMod) * (IF k % 2 = 1 THEN HashMult ELSE 1))
                % HashMod

\* The hash of the characters lo..hi of s.
RECURSIVE HashRange(_, _, _)
HashRange(s, lo, hi) ==
    IF lo = hi THEN Ord(s[lo])
    ELSE LET mid == (lo + hi) \div 2
         IN  (HashRange(s, lo, mid) * HashPow(hi - mid)
              + HashRange(s, mid + 1, hi)) % HashMod

StrHash(s) ==
    IF s = <<>> THEN 0 ELSE (HashRange(s, 1, Len(s)) + Len(s)) % HashMod

Cmp(a, b) == IF a < b THEN -1 ELSE IF a > b THEN 1 ELSE 0

(***************************************************************************)
(* class QueryString(dict)                                                 *)
(***************************************************************************)
QueryStringV(d) == [t |-> "QueryString", v |-> d]

\* bool(x): None is false, a number is true unless zero, a container (and
\* so a Response, an Item or an ItemsCollection) is true unless empty, and a
\* ResponseStatus is true when it is 200 (ResponseStatus.__nonzero__).
Truthy(x) ==
    CASE x.t = "none" -> FALSE
      [] x.t = "int" -> x.v # 0
      [] x.t \in {"str", "list", "tuple", "dict", "QueryString", "Response",
                  "Item", "ItemsCollection"} -> x.v # <<>>
      [] x.t = "ResponseStatus" -> x.v = 200
      [] OTHER -> TRUE

\* __iter__: the native keys, sorted.
QueryString_iter_unsorted(q) == Keys(q.v)
QueryString_iter(q) == Sort(Keys(q.v))

\* The loop of __init__: for k in self: self[k] = str(self[k]).encode(utf-8)
RECURSIVE QueryString_coerce(_, _)
QueryString_coerce(d, ks) ==
    IF ks = <<>> THEN QueryStringV(d)
    ELSE LET e == EncodeUtf8(PyStr(Get(d, Head(ks))))
         IN  IF Raised(e) THEN e
             ELSE QueryString_coerce(Put(d, Head(ks), e), Tail(ks))

\* __init__(self, items=None, **kwargs): items is None or a dict value,
\* kwargs a dict.
QueryString_init(items, kwargs) ==
    LET its == IF Truthy(items) THEN items.v ELSE <<>>
        d == Update(Update(<<>>, its), kwargs)
    IN  QueryString_coerce(d, QueryString_iter(QueryStringV(d)))

QueryString_keys(q) == QueryString_iter(q)
QueryString_values(q) ==
    LET ks == QueryString_iter(q) IN [i \in 1..Len(ks) |-> Get(q.v, ks[i])]
QueryString_items(q) ==
    LET ks == QueryString_iter(q)
    IN  [i \in 1..Len(ks) |-> <<ks[i], Get(q.v, ks[i])>>]

\* __str__: urlencode(self), which reads self.items().
QueryString_str(q) == UrlEncode(QueryString_items(q))
QueryString_hash(q) == StrHash(QueryString_str(q))
QueryString_cmp(q, other) == Cmp(QueryString_hash(q), QueryString_hash(other))

(***************************************************************************)
(* The inputs of the model.                                                *)
(***************************************************************************)
\* The str literals of the program and of its doctests, and the texts the
\* inputs of the model are made of, each as its characters.
Lit ==
    [albumCode |-> <<"a", "l", "b", "u", "m", "C", "o", "d", "e">>,
     apikey |-> <<"a", "p", "i", "k", "e", "y">>,
     country |-> <<"c", "o", "u", "n", "t", "r", "y">>,
     it |-> <<"i", "t">>,
     r_and_b |-> <<"r", "&", "b", " ", "k">>,
     format |-> <<"f", "o", "r", "m", "a", "t">>,
     json |-> <<"j", "s", "o", "n">>,
     base |-> <<"h", "t", "t", "p", ":", "/", "/", "a", "p", "i", ".",
                "p", "l", "a", "y", "m", "e", ".", "c", "o", "m", "/">>,
     getAlbums |-> <<"g", "e", "t", "A", "l", "b", "u", "m", "s">>,
     upper |-> <<"u", "p", "p", "e", "r">>,
     private |-> <<"_", "u", "p", "p", "e", "r">>,
     dunder_len |-> <<"_", "_", "l", "e", "n", "_", "_">>,
     xml |-> <<"x", "m", "l">>,
     format_json |-> <<"f", "o", "r", "m", "a", "t", "=", "j", "s", "o", "n">>,
     album_get |-> <<"a", "l", "b", "u", "m", ".", "g", "e", "t">>,
     artist_getAlbums |-> <<"a", "r", "t", "i", "s", "t", ".", "g", "e",
                            "t", "A", "l", "b", "u", "m", "s">>,
     response |-> <<"r", "e", "s", "p", "o", "n", "s", "e">>,
     error |-> <<"e", "r", "r", "o", "r">>,
     code |-> <<"c", "o", "d", "e">>,
     description |-> <<"d", "e", "s", "c", "r", "i", "p", "t", "i", "o",
                       "n">>,
     name |-> <<"n", "a", "m", "e">>,
     spam |-> <<"s", "p", "a", "m">>,
     ab |-> <<"a", "b">>,
     n13000 |-> <<"1", "3", "0", "0", "0">>,
     n402_padded |-> <<" ", "4", "0", "2", " ">>,
     n_minus1 |-> <<"-", "1">>,
     x1A |-> <<"1", "A">>,
     a |-> <<"a">>,
     b |-> <<"b">>,
     artist |-> <<"a", "r", "t", "i", "s", "t">>,
     artists |-> <<"a", "r", "t", "i", "s", "t", "s">>,
     album |-> <<"a", "l", "b", "u", "m">>,
     albums |-> <<"a", "l", "b", "u", "m", "s">>,
     track |-> <<"t", "r", "a", "c", "k">>,
     tracks |-> <<"t", "r", "a", "c", "k", "s">>,
     get |-> <<"g", "e", "t">>,
     status |-> <<"s", "t", "a", "t", "u", "s">>,
     title |-> <<"t", "i", "t", "l", "e">>,
     n14031 |-> <<"1", "4", "0", "3", "1">>]

\* The parameters a caller may pass, each name with its value.
QueryParams ==
    <<<<StrV(Lit.country), StrV(Lit.it)>>,
      <<StrV(Lit.apikey), StrV(Lit.r_and_b)>>,
      <<StrV(Lit.albumCode), IntV(1)>>,
      <<StrV(Lit.format), StrV(Lit.json)>>>>

\* The lists of at most n of the parameters ps, in the order of ps.
SubLists(ps, n) ==
    {[i \in 1..Len(ix) |-> ps[ix[i]]] :
        ix \in {s \in UNION {[1..k -> 1..Len(ps)] : k \in 0..n} :
                  \A i, j \in 1..Len(s) : i < j => s[i] < s[j]}}

\* Every order in which a list can be written.
Orders(s) ==
    {[i \in 1..Len(s) |-> s[p[i]]] :
        p \in {f \in [1..Len(s) -> 1..Len(s)] :
                 \A i, j \in 1..Len(s) : i # j => f[i] # f[j]}}

Content(d) == {d[i] : i \in 1..Len(d)}

(***************************************************************************)
(* SpecQuery: the caller builds QueryString objects from one parameter set *)
(* written in any order, as a mapping, as keyword arguments or as both.    *)
(***************************************************************************)
InitQuery ==
    /\ params \in SubLists(QueryParams, MaxParams)
    /\ queries = {}
    /\ target = <<>>
    /\ heap = <<>>
    /\ requests = {}
    /\ NoResponse /\ NoFetch /\ NoItem

\* QueryString(items, **kwargs) with the first n parameters of the list
\* given as the mapping and the others as keyword arguments.
NewQueryString(order, n) ==
    /\ Cardinality(queries) < MaxQueries
    /\ LET items == IF n = 0 THEN NoneV ELSE DictV(SubSeq(order, 1, n))
           kwargs == SubSeq(order, n + 1, Len(order))
       IN  queries' = queries \cup
               {[q |-> QueryString_init(items, kwargs),
                 items |-> items, kwargs |-> kwargs]}
    /\ UNCHANGED <<params, target, heap, requests>>
    /\ UNCHANGED <<responseVars, fetchVars, itemVars>>

NextQuery ==
    \E order \in Orders(params) : \E n \in 0..Len(order) :
        NewQueryString(order, n)

SpecQuery == InitQuery /\ [][NextQuery]_vars

\* The parameters a call QueryString(items, **kwargs) was given.
CallContent(c) ==
    Content(IF c.items = NoneV THEN <<>> ELSE c.items.v) \cup Content(c.kwargs)

IsAscending(ks) ==
    \A i, j \in 1..Len(ks) : i < j => StrLess(ks[i].v, ks[j].v)

\* C1: two QueryString objects built from the same parameters, in whatever
\* order and whether given as a mapping or as keyword arguments, have the
\* same urlencoded string, the same keys(), values() and items() and the same
\* hash, and every QueryString iterates in ascending order of its keys.
C1_CanonicalOrder ==
    LET view == [a \in queries |->
                   [str |-> QueryString_str(a.q),
                    keys |-> QueryString_keys(a.q),
                    values |-> QueryString_values(a.q),
                    items |-> QueryString_items(a.q),
                    hash |-> QueryString_hash(a.q),
                    iter |-> QueryString_iter(a.q)]]
    IN  \A a \in queries :
            /\ ~Raised(a.q)
            /\ IsAscending(view[a].iter)
            /\ IsAscending(view[a].keys)
            /\ \A b \in queries :
                 CallContent(a) = CallContent(b) =>
                    /\ view[a] = view[b]
                    /\ a # b => QueryString_cmp(a.q, b.q) = 0

\* Two objects from the same two or more parameters, one given as a mapping
\* and one as keyword arguments, whose native key orders differ.
C1_Witness ==
    \E a, b \in queries :
        /\ Len(a.q.v) >= 2
        /\ a.items # NoneV /\ a.kwargs = <<>>
        /\ b.items = NoneV
        /\ CallContent(a) = CallContent(b)
        /\ Keys(a.q.v) # Keys(b.q.v)
        /\ \E i \in 1..Len(a.items.v) : a.items.v[i][2].t = "int"

(***************************************************************************)
(* class Method(str)                                                       *)
(***************************************************************************)
MethodV(s) == [t |-> "Method", v |-> s]

\* Method(name) for a str or a Method: a str subclass keeps the characters.
Method_new(name) == MethodV(name.v)

(***************************************************************************)
(* class Request(object).  self.data is a reference: RefV(i) is the        *)
(* caller-held QueryString object heap[i], and a QueryString that __init__ *)
(* itself creates, which nothing else refers to, is held in the Request.   *)
(***************************************************************************)
RefV(i) == [t |-> "ref", v |-> i]

Deref(h, x) == IF x.t = "ref" THEN h[x.v] ELSE x

\* __init__ without its query_string.update(kwargs).
Request_init_nokwargs(h, api_method, query_string, kwargs) ==
    LET qs0 == IF Truthy(Deref(h, query_string)) THEN query_string
               ELSE DictV(<<>>)
        qs1 == IF Deref(h, qs0).t = "QueryString" THEN qs0
               ELSE QueryString_init(qs0, <<>>)
        method == IF api_method.t = "Method" THEN api_method
                  ELSE Method_new(api_method)
    IN  IF Raised(qs1) THEN [heap |-> h, req |-> qs1]
        ELSE IF qs1.t = "ref"
        THEN [heap |-> [h EXCEPT ![qs1.v] =
                            h[qs1.v]],
              req |-> [t |-> "Request", method |-> method, data |-> qs1,
                       response |-> NoneV]]
        ELSE [heap |-> h,
              req |-> [t |-> "Request", method |-> method,
                       data |-> qs1,
                       response |-> NoneV]]

\* __init__(self, api_method, query_string=None, **kwargs) on the heap h:
\* the heap afterwards and the new Request (or the exception raised).
Request_init(h, api_method, query_string, kwargs) ==
    LET qs0 == IF Truthy(Deref(h, query_string)) THEN query_string
               ELSE DictV(<<>>)
        qs1 == IF Deref(h, qs0).t = "QueryString" THEN qs0
               ELSE QueryString_init(qs0, <<>>)
        method == IF api_method.t = "Method" THEN api_method
                  ELSE Method_new(api_method)
    IN  IF Raised(qs1) THEN [heap |-> h, req |-> qs1]
        ELSE IF qs1.t = "ref"
        THEN [heap |-> [h EXCEPT ![qs1.v] =
                            QueryStringV(Update(h[qs1.v].v, kwargs))],
              req |-> [t |-> "Request", method |-> method, data |-> qs1,
                       response |-> NoneV]]
        ELSE [heap |-> h,
              req |-> [t |-> "Request", method |-> method,
                       data |-> QueryStringV(Update(qs1.v, kwargs)),
                       response |-> NoneV]]

\* __str__: the URL, with the method and the data formatted by %s.
Request_str(h, r) ==
    Lit.base \o r.method.v \o <<"?">> \o QueryString_str(Deref(h, r.data))
Request_hash(h, r) == StrHash(Request_str(h, r))
Request_cmp(h, r, other) == Cmp(Request_hash(h, r), Request_hash(h, other))

(***************************************************************************)
(* SpecRequest: the caller holds a parameter list, a QueryString built     *)
(* from it and a method name, and builds Requests in every form            *)
(* __init__ accepts.                                                       *)
(***************************************************************************)
Targets == {Lit.album_get, Lit.artist_getAlbums}

\* The parameters a caller may pass, each name with its value.
RequestParams ==
    <<<<StrV(Lit.country), StrV(Lit.it)>>,
      <<StrV(Lit.apikey), StrV(Lit.r_and_b)>>,
      <<StrV(Lit.albumCode), IntV(782378)>>>>

InitRequest ==
    /\ params \in SubLists(RequestParams, MaxParams)
    /\ target \in Targets
    /\ heap = <<QueryString_init(DictV(params), <<>>)>>
    /\ requests = {}
    /\ queries = {}
    /\ NoResponse /\ NoFetch /\ NoItem

\* Request(api_method, query_string, **kwargs) with the method given as a
\* str or as a Method, and the parameters as a dict, as the QueryString
\* the caller holds, or as keyword arguments.
NewRequest(mform, qform, order) ==
    /\ Cardinality(requests) < MaxRequests
    /\ LET api_method == IF mform = "str" THEN StrV(target)
                         ELSE MethodV(target)
           query_string == CASE qform = "dict" -> DictV(order)
                             [] qform = "QueryString" -> RefV(1)
                             [] qform = "kwargs" -> NoneV
           kwargs == IF qform = "kwargs" THEN order ELSE <<>>
           res == Request_init(heap, api_method, query_string, kwargs)
       IN  /\ heap' = res.heap
           /\ requests' = requests \cup {[r |-> res.req, mform |-> mform,
                                          qform |-> qform]}
    /\ UNCHANGED <<params, target, queries>>
    /\ UNCHANGED <<responseVars, fetchVars, itemVars>>

NextRequest ==
    \E mform \in {"str", "Method"} :
        \/ \E order \in Orders(params) : NewRequest(mform, "dict", order)
        \/ \E order \in Orders(params) : NewRequest(mform, "kwargs", order)
        \/ NewRequest(mform, "QueryString", params)

SpecRequest == InitRequest /\ [][NextRequest]_vars

\* The canonical query of a set of parameters: the smallest name first.
RECURSIVE CanonicalQuery(_)
CanonicalQuery(ps) ==
    IF ps = {} THEN <<>>
    ELSE LET p == CHOOSE x \in ps :
                    \A y \in ps \ {x} : StrLess(x[1].v, y[1].v)
         IN  QuotePlus(PyStr(p[1])) \o <<"=">> \o QuotePlus(PyStr(p[2])) \o
             (IF ps = {p} THEN <<>> ELSE <<"&">> \o CanonicalQuery(ps \ {p}))

\* C10: the Requests built for one method and one parameter set, through
\* every form (method as a str or a Method; parameters as a dict, a
\* QueryString or keyword arguments), have the URL
\* http://api.playme.com/<method>?<canonical query>, compare equal and have
\* equal hashes.
C10_FormsAgree ==
    LET url == [a \in requests |-> Request_str(heap, a.r)]
        hash == [a \in requests |-> Request_hash(heap, a.r)]
        canonical == Lit.base \o target \o <<"?">> \o
                     CanonicalQuery(Content(params))
    IN  \A a \in requests :
            /\ ~Raised(a.r)
            /\ url[a] = canonical
            /\ \A b \in requests :
                  /\ url[a] = url[b]
                  /\ hash[a] = hash[b]
                  /\ a # b => Request_cmp(heap, a.r, b.r) = 0

\* A Request from a method name and keyword arguments holding an int, and a
\* Request from a Method and a dict written in another order, for two or
\* more parameters.
C10_Witness ==
    \E a, b \in requests :
        /\ a.mform = "str" /\ a.qform = "kwargs"
        /\ b.mform = "Method" /\ b.qform = "dict"
        /\ Len(a.r.data.v) >= 2
        /\ Keys(a.r.data.v) # Keys(b.r.data.v)
        /\ \E i \in 1..Len(a.r.data.v) : a.r.data.v[i][2].t = "int"

(***************************************************************************)
(* json.loads.  The body of an HTTP reply is a text; the model holds       *)
(* whether the text is JSON and the document it then denotes.  Documents   *)
(* are None (null), int, str, list and dict with str keys.                 *)
(***************************************************************************)
JsonText(doc) == [json |-> TRUE, doc |-> doc]
NotJson == [json |-> FALSE, doc |-> NoneV]

json_loads(text) == IF text.json THEN text.doc ELSE Raise("ValueError")

\* x[k] for a str key k: the value of a dict, KeyError when the dict has no
\* such key, TypeError for a list, a str, a number or None.
Subscript(x, k) ==
    IF Raised(x) THEN x
    ELSE IF x.t \in {"dict", "QueryString", "Response", "Item"}
    THEN IF HasKey(x.v, k) THEN Get(x.v, k) ELSE Raise("KeyError")
    ELSE Raise("TypeError")

\* One element of the sequence dict.update is given: a key and a value when
\* the element is itself a sequence of length two with a hashable first
\* element.
PairV(k, v) == [t |-> "pair", v |-> <<k, v>>]
UpdateElement(e) ==
    CASE e.t \in {"list", "tuple", "ItemsCollection"} ->
            IF Len(e.v) # 2 THEN Raise("ValueError")
            ELSE IF e.v[1].t \in {"list", "dict"} THEN Raise("TypeError")
            ELSE PairV(e.v[1], e.v[2])
      [] e.t = "str" ->
            IF Len(e.v) # 2 THEN Raise("ValueError")
            ELSE PairV(StrV(<<e.v[1]>>), StrV(<<e.v[2]>>))
      [] e.t \in {"dict", "Item", "Response"} ->
            IF Len(e.v) # 2 THEN Raise("ValueError")
            ELSE PairV(e.v[1][1], e.v[2][1])
      [] OTHER -> Raise("TypeError")

RECURSIVE UpdateFromSeq(_, _)
UpdateFromSeq(d, xs) ==
    IF xs = <<>> THEN DictV(d)
    ELSE LET p == UpdateElement(Head(xs))
         IN  IF Raised(p) THEN p
             ELSE UpdateFromSeq(Put(d, p.v[1], p.v[2]), Tail(xs))

\* d.update(x) for any x: a dict is merged, a list or a str is read as a
\* sequence of key-value pairs, anything else is not iterable.
DictUpdate(d, x) ==
    CASE x.t \in {"dict", "QueryString", "Response", "Item"} ->
            DictV(Update(d, x.v))
      [] x.t \in {"list", "tuple", "ItemsCollection"} ->
            UpdateFromSeq(d, x.v)
      [] x.t = "str" -> IF x.v = <<>> THEN DictV(d) ELSE Raise("ValueError")
      [] OTHER -> Raise("TypeError")

(***************************************************************************)
(* class ResponseStatus(int)                                               *)
(***************************************************************************)
ResponseStatusV(n) == [t |-> "ResponseStatus", v |-> n]

\* The characters of a str, as one string.
RECURSIVE Text(_)
Text(s) == IF s = <<>> THEN "" ELSE Head(s) \o Text(Tail(s))

\* __status__
StatusCodes ==
    {200, 402, 10010, 10020, 10040, 10050, 10810, 11000, 13000, 13010, 13020,
     13040, 13110, 14010, 14011, 14030, 14031, 14032, 14033, 14034, 14040,
     16000, 20000, 20010, 21000}
StatusTable(n) ==
    CASE n = 200 -> "The request was successful"
      [] n = 402 -> "User not enabled to use this function"
      [] n = 10010 -> "Missing parameter"
      [] n = 10020 -> "Invalid parameter"
      [] n = 10040 -> "Too many parameters as primary key"
      [] n = 10050 -> "Too many mutual exclusive parameters"
      [] n = 10810 -> "Error while retrieving item data"
      [] n = 11000 -> "Authentication Failure"
      [] n = 13000 -> "Item not found"
      [] n = 13010 -> "Item already exists"
      [] n = 13020 -> "User already unsubscribed"
      [] n = 13040 -> "Dependency item missing"
      [] n = 13110 -> "Item not owned by the user associated to the UAT"
      [] n = 14010 -> "Authorization failed"
      [] n = 14011 ->
            "Missing user authentication token or authentication token"
            \o "                  not valid (possibly expired)"
      [] n = 14030 -> "Permission denied"
      [] n = 14031 -> "Invalid or missing apikey"
      [] n = 14032 -> "Blacklisted apikey"
      [] n = 14033 -> "Unauthorized call"
      [] n = 14034 -> "Temporarily blocked"
      [] n = 14040 -> "API not found"
      [] n = 16000 -> "Search engine error"
      [] n = 20000 -> "DB error"
      [] n = 20010 -> "User already exists"
      [] n = 21000 -> "Unable to assign credits"

\* __str__
ResponseStatus_str(st) ==
    IF st.v \in StatusCodes THEN StatusTable(st.v)
    ELSE "Unknown status code " \o Text(IntToStr(st.v)) \o "!"

\* __nonzero__
ResponseStatus_nonzero_int(st) == st.v # 0
ResponseStatus_nonzero(st) == st.v = 200

\* success()
ResponseStatus_success == ResponseStatusV(200)

(***************************************************************************)
(* int(x): a number is itself; a str is read as optional blanks, an        *)
(* optional sign, digits and optional blanks, and is a ValueError          *)
(* otherwise; None, a list or a dict is a TypeError.                       *)
(***************************************************************************)
RECURSIVE Strip(_)
Strip(s) ==
    IF s = <<>> THEN s
    ELSE IF Head(s) = " " THEN Strip(Tail(s))
    ELSE IF s[Len(s)] = " " THEN Strip(SubSeq(s, 1, Len(s) - 1))
    ELSE s

RECURSIVE DigitsValue(_)
DigitsValue(s) ==
    IF s = <<>> THEN 0
    ELSE 10 * DigitsValue(SubSeq(s, 1, Len(s) - 1)) + DigitVal(s[Len(s)])

PyInt(x) ==
    CASE x.t = "int" -> x
      [] x.t = "str" ->
            LET s == Strip(x.v)
                signed == s # <<>> /\ Head(s) \in {"+", "-"}
                ds == IF signed THEN Tail(s) ELSE s
            IN  IF ds = <<>> \/ \E i \in 1..Len(ds) : ~IsDigit(ds[i])
                THEN Raise("ValueError")
                ELSE IntV(IF signed /\ Head(s) = "-" THEN -DigitsValue(ds)
                          ELSE DigitsValue(ds))
      [] OTHER -> Raise("TypeError")

(***************************************************************************)
(* class Response(dict)                                                    *)
(***************************************************************************)
ResponseV(d) == [t |-> "Response", v |-> d]

\* __init__(self, response): self.update(json.loads(response)[response]),
\* with ValueError, KeyError and TypeError turned into ResponseError.
Response_init(text) ==
    LET inner == Subscript(json_loads(text), StrV(Lit.response))
        d == IF Raised(inner) THEN inner ELSE DictUpdate(<<>>, inner)
    IN  IF Raised(d)
        THEN IF d.v.exc \in {"ValueError", "KeyError", "TypeError"}
             THEN RaiseWith("ResponseError", "Invalid Json response message.")
             ELSE d
        ELSE ResponseV(d.v)

\* status: ResponseStatus(int(self[error][code])), and success() when either
\* subscript raises KeyError.
Response_status(r) ==
    LET error == Subscript(r, StrV(Lit.error))
        code == Subscript(error, StrV(Lit.code))
        n == IF Raised(code) THEN code ELSE PyInt(code)
    IN  IF Raised(n)
        THEN IF n.v.exc = "KeyError" THEN ResponseStatus_success ELSE n
        ELSE ResponseStatusV(n.v)

(***************************************************************************)
(* SpecResponse: the server sends one body; the caller builds a Response   *)
(* from it and reads its status.                                           *)
(***************************************************************************)

\* Values of error.code: numbers, numerals, and what int() rejects.
Codes ==
    {IntV(200), IntV(0), IntV(13000), IntV(777),
     StrV(Lit.n13000), StrV(Lit.n402_padded), StrV(Lit.n_minus1),
     StrV(Lit.x1A), StrV(<<>>), NoneV, ListV(<<IntV(402)>>)}

\* Values of the error field.
Errors ==
    {DictV(<<<<StrV(Lit.code), c>>>>) : c \in Codes}
    \cup {DictV(<<<<StrV(Lit.description), StrV(Lit.spam)>>,
                  <<StrV(Lit.code), c>>>>) : c \in {IntV(13000), StrV(Lit.x1A)}}
    \cup {DictV(<<>>), DictV(<<<<StrV(Lit.description), StrV(Lit.spam)>>>>),
          NoneV, StrV(Lit.spam), ListV(<<>>), IntV(402)}

\* Values under the top-level response key: mappings with and without an
\* error field, and values that are no mapping.
Inners ==
    {DictV(<<<<StrV(Lit.error), e>>>>) : e \in Errors}
    \cup {DictV(<<<<StrV(Lit.name), StrV(Lit.spam)>>,
                  <<StrV(Lit.error), e>>>>) :
             e \in {DictV(<<<<StrV(Lit.code), IntV(13000)>>>>), DictV(<<>>)}}
    \cup {DictV(<<>>), DictV(<<<<StrV(Lit.name), StrV(Lit.spam)>>>>),
          DictV(<<<<StrV(Lit.code), IntV(13000)>>>>)}
    \cup {NoneV, IntV(0), IntV(7), StrV(<<>>), StrV(Lit.ab), StrV(Lit.spam),
          ListV(<<>>), ListV(<<IntV(1)>>), ListV(<<StrV(Lit.ab)>>),
          ListV(<<StrV(Lit.spam)>>),
          ListV(<<ListV(<<StrV(Lit.name), StrV(Lit.spam)>>)>>),
          ListV(<<ListV(<<StrV(Lit.error), DictV(<<>>)>>)>>),
          ListV(<<ListV(<<ListV(<<>>), IntV(1)>>)>>),
          ListV(<<DictV(<<<<StrV(Lit.a), IntV(1)>>,
                          <<StrV(Lit.b), IntV(2)>>>>)>>),
          ListV(<<DictV(<<>>)>>)}

Bodies ==
    {NotJson}
    \cup {JsonText(x) : x \in {NoneV, IntV(5), StrV(Lit.spam), ListV(<<>>),
                               ListV(<<StrV(Lit.response)>>), DictV(<<>>),
                               DictV(<<<<StrV(Lit.error), DictV(<<>>)>>>>)}}
    \cup {JsonText(DictV(<<<<StrV(Lit.response), x>>>>)) : x \in Inners}
    \cup {JsonText(DictV(<<<<StrV(Lit.name), StrV(Lit.spam)>>,
                           <<StrV(Lit.response), DictV(<<>>)>>>>))}

InitResponse ==
    /\ body \in Bodies
    /\ parsed = NoneV
    /\ status = NoneV
    /\ NoQuery /\ NoFetch /\ NoItem

\* r = Response(body)
Parse ==
    /\ parsed = NoneV
    /\ parsed' = Response_init(body)
    /\ UNCHANGED <<body, status, queryVars, fetchVars, itemVars>>

\* r.status
ReadStatus ==
    /\ parsed.t = "Response"
    /\ status = NoneV
    /\ status' = Response_status(parsed)
    /\ UNCHANGED <<body, parsed, queryVars, fetchVars, itemVars>>

NextResponse == Parse \/ ReadStatus

SpecResponse == InitResponse /\ [][NextResponse]_vars

\* The value under the top-level response key of a body, when the body is
\* JSON for an object that has the key.
HasInner(text) ==
    text.json /\ text.doc.t = "dict" /\ HasKey(text.doc.v, StrV(Lit.response))
Inner(text) == Get(text.doc.v, StrV(Lit.response))

C4_StatusByCases ==
    status # NoneV /\ Inner(body).t = "dict" =>
        IF ~HasKey(parsed.v, StrV(Lit.error))
        THEN status = ResponseStatusV(200)
        ELSE LET e == Get(parsed.v, StrV(Lit.error))
                 wellFormed == /\ e.t = "dict"
                               /\ HasKey(e.v, StrV(Lit.code))
                               /\ ~Raised(PyInt(Get(e.v, StrV(Lit.code))))
             IN  IF wellFormed
                 THEN status =
                          ResponseStatusV(PyInt(Get(e.v, StrV(Lit.code))).v)
                 ELSE Raised(status)

(***************************************************************************)
(* Request.response.  The network answers urlopen with a reply: a body     *)
(* read from a normal answer, the body of an HTTPError, or a transport     *)
(* failure that urlopen raises as URLError.                                *)
(***************************************************************************)
Reply(kind, text) == [kind |-> kind, text |-> text]

\* response: if not self._response, urlopen(str(self)), an HTTPError being
\* read like a normal answer, and self._response = Response(body); then
\* return self._response.  The Response objects live in h.
Request_response(h, r, reply) ==
    IF Truthy(Deref(h, r.response))
    THEN [heap |-> h, req |-> r, gets |-> <<>>, result |-> r.response]
    ELSE LET url == Request_str(h, r)
             made == IF reply.kind = "URLError" THEN Raise("URLError")
                     ELSE Response_init(reply.text)
         IN  IF Raised(made)
             THEN [heap |-> h, req |-> r, gets |-> <<url>>, result |-> made]
             ELSE [heap |-> Append(h, made),
                   req |-> [r EXCEPT !.response = RefV(Len(h) + 1)],
                   gets |-> <<url>>, result |-> RefV(Len(h) + 1)]

(***************************************************************************)
(* SpecFetch: one Request instance whose response property is read again   *)
(* and again, the network answering each fetch as it likes.                *)
(***************************************************************************)
Replies ==
    {Reply("ok", NotJson),
     Reply("ok", JsonText(DictV(<<<<StrV(Lit.response), DictV(<<>>)>>>>))),
     Reply("ok", JsonText(DictV(<<<<StrV(Lit.response),
               DictV(<<<<StrV(Lit.name), StrV(Lit.spam)>>>>)>>>>))),
     Reply("HTTPError", JsonText(DictV(<<<<StrV(Lit.response),
               DictV(<<<<StrV(Lit.error),
                   DictV(<<<<StrV(Lit.code), IntV(13000)>>>>)>>>>)>>>>))),
     Reply("URLError", NotJson)}

InitFetch ==
    /\ params \in SubLists(RequestParams, MaxParams)
    /\ target \in Targets
    /\ heap = <<>>
    /\ request = Request_init(<<>>, MethodV(target), DictV(params), <<>>).req
    /\ gets = <<>>
    /\ accesses = <<>>
    /\ queries = {} /\ requests = {}
    /\ NoResponse /\ NoItem

\* request.response, read once more; the access is recorded with what it
\* returned or raised and the number of fetches made up to its end.
AccessResponse(reply) ==
    /\ Len(accesses) < MaxAccesses
    /\ LET res == Request_response(heap, request, reply)
       IN  /\ heap' = res.heap
           /\ request' = res.req
           /\ gets' = gets \o res.gets
           /\ accesses' = Append(accesses,
                  [result |-> res.result, gets |-> Len(gets \o res.gets)])
    /\ UNCHANGED <<params, target, queries, requests>>
    /\ UNCHANGED <<responseVars, itemVars>>

NextFetch == \E reply \in Replies : AccessResponse(reply)

SpecFetch == InitFetch /\ [][NextFetch]_vars

ItemV(cls, d) == [t |-> "Item", cls |-> cls, v |-> d]
CollectionV(cls, xs) == [t |-> "ItemsCollection", cls |-> cls, v |-> xs]

ItemClasses == {"Item", "Artist", "Album", "Track"}
CollectionClasses == {"ItemsCollection", "Artists", "Albums", "Tracks"}

\* The label attribute of a class.
Label(cls) ==
    CASE cls = "Artist" -> StrV(Lit.artist)
      [] cls = "Artists" -> StrV(Lit.artists)
      [] cls = "Album" -> StrV(Lit.album)
      [] cls = "Albums" -> StrV(Lit.albums)
      [] cls = "Track" -> StrV(Lit.track)
      [] cls = "Tracks" -> StrV(Lit.tracks)
      [] OTHER -> NoneV

\* The item_type attribute of a collection class.
ItemType(cls) ==
    CASE cls = "Artists" -> "Artist"
      [] cls = "Albums" -> "Album"
      [] cls = "Tracks" -> "Track"
      [] cls = "ItemsCollection" -> "Item"

\* The api_method attribute of an Item class.
ApiMethod(cls) ==
    IF cls = "Item" THEN NoneV
    ELSE MethodV(Label(cls).v \o <<".">> \o Lit.get)

ENTITIES == <<"Artist", "Artists", "Album", "Albums", "Track", "Tracks">>
InLABEL2CLS(k) == \E i \in 1..Len(ENTITIES) : Label(ENTITIES[i]) = k
LABEL2CLS(k) == CHOOSE c \in ItemClasses \cup CollectionClasses :
                    c # "Item" /\ c # "ItemsCollection" /\ Label(c) = k

\* isinstance(x, cls) for an Item class: every Item class derives from Item
\* and from no other.
IsInstance(x, cls) == x.t = "Item" /\ (cls = "Item" \/ x.cls = cls)

\* a == b.  Dicts, Items among them, are equal when they hold equal values
\* under the same keys; tuples and lists are equal to their own kind with
\* equal elements in the same order.
MappingTags == {"dict", "Item", "Response"}
SequenceKind(x) ==
    CASE x.t = "list" -> "list"
      [] x.t \in {"tuple", "ItemsCollection"} -> "tuple"
      [] OTHER -> "none"

RECURSIVE PyEq(_, _)
PyEq(a, b) ==
    IF a.t \in MappingTags /\ b.t \in MappingTags
    THEN /\ Len(a.v) = Len(b.v)
         /\ \A i \in 1..Len(a.v) :
                /\ HasKey(b.v, a.v[i][1])
                /\ PyEq(a.v[i][2], Get(b.v, a.v[i][1]))
    ELSE IF SequenceKind(a) # "none" /\ SequenceKind(a) = SequenceKind(b)
    THEN /\ Len(a.v) = Len(b.v)
         /\ \A i \in 1..Len(a.v) : PyEq(a.v[i], b.v[i])
    ELSE a.t \notin MappingTags /\ b.t \notin MappingTags
         /\ SequenceKind(a) = "none" /\ SequenceKind(b) = "none"
         /\ a = b

\* x in xs
PyIn(x, xs) == \E i \in 1..Len(xs) : PyEq(xs[i], x)

\* The elements iterating x yields (*x, or a comprehension over x): those
\* of a list or tuple, the keys of a dict, the characters of a str;
\* TypeError for what is not iterable.
Iterate(x) ==
    CASE x.t \in {"list", "tuple", "ItemsCollection"} -> ListV(x.v)
      [] x.t \in MappingTags -> ListV(Keys(x.v))
      [] x.t = "QueryString" -> ListV(QueryString_iter(x))
      [] x.t = "str" -> ListV([i \in 1..Len(x.v) |-> StrV(<<x.v[i]>>)])
      [] OTHER -> Raise("TypeError")

\* str(k) of a key.
KeyStr(k) == StrV(PyStr(k))

RECURSIVE StrKeyed(_)
StrKeyed(d) ==
    IF d = <<>> THEN <<>>
    ELSE LET n == Len(d)
         IN  Put(StrKeyed(SubSeq(d, 1, n - 1)), KeyStr(d[n][1]), d[n][2])

\* str_keys(d): dict(d) unless d is a dict, then the same values under the
\* str() of their keys.
str_keys(d) ==
    LET dd == IF d.t \in MappingTags \cup {"QueryString"} THEN DictV(d.v)
              ELSE DictUpdate(<<>>, d)
    IN  IF Raised(dd) THEN dd ELSE DictV(StrKeyed(dd.v))

(***************************************************************************)
(* class Item(dict) and class ItemsCollection(tuple)                       *)
(***************************************************************************)
RECURSIVE Item_init(_, _)
RECURSIVE ItemsCollection_new(_, _)
RECURSIVE CastSiblings(_, _)
RECURSIVE CastItems(_, _, _)

\* *sub of the value a subscript gave, if it gave one.
StarArgs(sub) == IF Raised(sub) THEN sub ELSE Iterate(sub)

\* kw[k] = LABEL2CLS[k](*xs), a KeyError raised on the way being passed
\* over.
CastPut(kw, k, coll) ==
    IF Raised(coll)
    THEN IF coll.v.exc = "KeyError" THEN DictV(kw) ELSE coll
    ELSE DictV(Put(kw, k, coll))
CastInto(kw, k, xs) ==
    IF Raised(xs)
    THEN IF xs.v.exc = "KeyError" THEN DictV(kw) ELSE xs
    ELSE CastPut(kw, k, ItemsCollection_new(LABEL2CLS(k), xs.v))

\* One round of the loop of Item.__init__ over the fields beside the
\* wrapper: kw[k] = LABEL2CLS[k](*v[LABEL2CLS[k].item_type.label]), except
\* KeyError: pass.  An Item class has no item_type (AttributeError); a v
\* that is no mapping cannot be subscripted by a label (TypeError).
CastSibling(kw, k, v) ==
    IF ~InLABEL2CLS(k) THEN DictV(kw)
    ELSE IF LABEL2CLS(k) \in ItemClasses THEN Raise("AttributeError")
    ELSE CastInto(kw, k,
                  StarArgs(Subscript(v, Label(ItemType(LABEL2CLS(k))))))

\* The loop: for k, v in kwargs.items().
CastNext(rest, kw) ==
    IF Raised(kw) THEN kw ELSE CastSiblings(kw.v, Tail(rest))
CastSiblings(kw, rest) ==
    IF rest = <<>> THEN DictV(kw)
    ELSE CastNext(rest, CastSibling(kw, Head(rest)[1], Head(rest)[2]))

\* self.update(**kwargs)
Item_update(cls, kw) == IF Raised(kw) THEN kw ELSE ItemV(cls, kw.v)

\* The branch of Item.__init__ for data that has the wrapper: kw is
\* str_keys(kwargs[self.label]), rest is kwargs after del kwargs[self.label].
Item_wrapped(cls, kw, rest) ==
    IF Raised(kw) THEN kw ELSE Item_update(cls, CastSiblings(kw.v, rest))

\* Item.__init__(self, **kwargs) of class cls; kwargs is a dict with str
\* keys.
Item_init(cls, kwargs) ==
    IF Label(cls).t = "str" /\ HasKey(kwargs, Label(cls))
    THEN Item_wrapped(cls, str_keys(Get(kwargs, Label(cls))),
                      Del(kwargs, Label(cls)))
    ELSE Item_update(cls, DictV(kwargs))

\* item = cls.item_type(**str_keys(item))
CoerceKeyed(cls, keyed) ==
    IF Raised(keyed) THEN keyed ELSE Item_init(cls, keyed.v)

\* except (ValueError, TypeError, AttributeError): item = None
Caught(made) ==
    IF Raised(made)
    THEN IF made.v.exc \in {"ValueError", "TypeError", "AttributeError"}
         THEN NoneV ELSE made
    ELSE made

\* What the loop of ItemsCollection.__new__ makes of one element: the
\* element if it is an instance of item_type, else an item_type built
\* from str_keys of it, or None.
Coerce(cls, x) ==
    IF IsInstance(x, ItemType(cls)) THEN x
    ELSE Caught(CoerceKeyed(ItemType(cls), str_keys(x)))

\* if item: casted.append(item), without the test for an item that is
\* already in casted.
Appended_always(casted, item) ==
    IF Truthy(item) THEN Append(casted, item) ELSE casted

\* if item and item not in casted: casted.append(item)
Appended(casted, item) ==
    IF Truthy(item) /\ ~PyIn(item, casted) THEN Append(casted, item)
    ELSE casted

\* The loop of ItemsCollection.__new__: for item in args.
CastStep(cls, xs, casted, item) ==
    IF Raised(item) THEN item
    ELSE CastItems(cls, Tail(xs), Appended(casted, item))
CastItems(cls, xs, casted) ==
    IF xs = <<>> THEN ListV(casted)
    ELSE CastStep(cls, xs, casted, Coerce(cls, Head(xs)))

\* tuple.__new__(cls, casted)
Collection_of(cls, casted) ==
    IF Raised(casted) THEN casted ELSE CollectionV(cls, casted.v)

\* ItemsCollection.__new__(cls, *args)
ItemsCollection_new(cls, xs) == Collection_of(cls, CastItems(cls, xs, <<>>))

\* tuple.__getitem__(self, slice(i, j)): a negative bound counts from the
\* end, and both are clipped to the tuple.
ClipIndex(n, i) ==
    LET k == IF i < 0 THEN i + n ELSE i
    IN  IF k < 0 THEN 0 ELSE IF k > n THEN n ELSE k
TupleSlice(xs, i, j) ==
    SubSeq(xs, ClipIndex(Len(xs), i) + 1, ClipIndex(Len(xs), j))

SliceV(i, j) == [t |-> "slice", v |-> <<i, j>>]

\* ItemsCollection.__getitem__(self, index): the element for an int, a
\* collection of the same type for a slice, TypeError otherwise.
ItemsCollection_getitem(c, index) ==
    CASE index.t = "int" ->
            LET k == IF index.v < 0 THEN index.v + Len(c.v) ELSE index.v
            IN  IF k < 0 \/ k >= Len(c.v) THEN Raise("IndexError")
                ELSE c.v[k + 1]
      [] index.t = "slice" ->
            ItemsCollection_new(c.cls,
                                TupleSlice(c.v, index.v[1], index.v[2]))
      [] OTHER -> Raise("TypeError")

\* ItemsCollection.__getslice__(self, i, j), called for c[i:j]: a negative
\* bound comes with len(c) already added.
ItemsCollection_again(known) ==
    IF Raised(known) THEN known ELSE ItemsCollection_new(known.cls, known.v)
ItemsCollection_getslice(c, i, j) ==
    ItemsCollection_again(ItemsCollection_getitem(c, SliceV(i, j)))

(***************************************************************************)
(* SpecItem: the caller holds keyword data, wrapped under a label or not,  *)
(* and builds an Item of each class from it.                               *)
(***************************************************************************)
Named(x) == DictV(<<<<StrV(Lit.name), StrV(x)>>>>)

\* What a payload may be wrapped under, and in what.
Wrappers ==
    {<<>>,
     <<<<StrV(Lit.track), Named(Lit.spam)>>>>,
     <<<<StrV(Lit.track),
         DictV(<<<<StrV(Lit.name), StrV(Lit.spam)>>,
                 <<StrV(Lit.album), Named(Lit.ab)>>>>)>>>>,
     <<<<StrV(Lit.album), Named(Lit.ab)>>>>}

\* The fields a payload may carry beside the wrapper.
Siblings ==
    <<<<StrV(Lit.album), Named(Lit.ab)>>,
      <<StrV(Lit.artist), Named(Lit.a)>>,
      <<StrV(Lit.albums),
        DictV(<<<<StrV(Lit.album),
                  ListV(<<Named(Lit.ab), Named(Lit.b)>>)>>>>)>>,
      <<StrV(Lit.tracks), ListV(<<Named(Lit.spam)>>)>>,
      <<StrV(Lit.artists), DictV(<<>>)>>,
      <<StrV(Lit.status), IntV(1)>>,
      <<StrV(Lit.title), StrV(Lit.ab)>>>>

InitItem ==
    /\ \E w \in Wrappers : \E s \in SubLists(Siblings, MaxSiblings) :
           /\ \A i \in 1..Len(s) : ~HasKey(w, s[i][1])
           /\ fields = w \o s
    /\ elems = <<>>
    /\ built = {}
    /\ NoQuery /\ NoResponse /\ NoFetch

\* cls(**fields)
NewItem(cls) ==
    /\ \A b \in built : b.cls # cls
    /\ built' = built \cup {[cls |-> cls, result |-> Item_init(cls, fields)]}
    /\ UNCHANGED <<fields, elems, queryVars, responseVars, fetchVars>>

NextItem == \E cls \in ItemClasses : NewItem(cls)

SpecItem == InitItem /\ [][NextItem]_vars

\* The fields of the keyword data beside the wrapper of class cls.
Beside(cls) ==
    {i \in 1..Len(fields) : fields[i][1] # Label(cls)}

\* x is an instance of the class registered for label k.
IsRegisteredInstance(x, k) ==
    /\ x.t \in {"Item", "ItemsCollection"}
    /\ x.cls = LABEL2CLS(k)

\* The value v is data the class registered for label k can be built from:
\* a mapping for an Item class, a mapping holding a list under the label
\* of the item type for a collection class.
Castable(k, v) ==
    /\ v.t = "dict"
    /\ LABEL2CLS(k) \in CollectionClasses =>
           /\ HasKey(v.v, Label(ItemType(LABEL2CLS(k))))
           /\ Get(v.v, Label(ItemType(LABEL2CLS(k)))).t = "list"

\* C5: an Item built from data wrapped under its own label, with fields
\* beside the wrapper whose keys are registered labels, is built without
\* failure and holds under each such key an instance of the class
\* registered for it.
C5_SiblingsCast ==
    \A b \in built :
        /\ Label(b.cls).t = "str" /\ HasKey(fields, Label(b.cls))
        /\ \A i \in Beside(b.cls) :
               InLABEL2CLS(fields[i][1]) =>
                   Castable(fields[i][1], fields[i][2])
        =>
            /\ ~Raised(b.result)
            /\ \A i \in Beside(b.cls) :
                   InLABEL2CLS(fields[i][1]) =>
                       /\ HasKey(b.result.v, fields[i][1])
                       /\ IsRegisteredInstance(
                              Get(b.result.v, fields[i][1]), fields[i][1])

\* C6: an Item built from keyword data holds every field of the data whose
\* key is neither its own label nor a registered label, with the value the
\* data has for it, whether the data has the wrapper or not.
C6_UnmatchedKept ==
    \A b \in built :
        ~Raised(b.result) =>
            \A i \in Beside(b.cls) :
                ~InLABEL2CLS(fields[i][1]) =>
                    /\ HasKey(b.result.v, fields[i][1])
                    /\ Get(b.result.v, fields[i][1]) = fields[i][2]

(***************************************************************************)
(* SpecCollection: the caller holds a sequence of elements, builds a       *)
(* collection from it, and takes an element or a slice of the collection.  *)
(***************************************************************************)
Elements ==
    {StrV(Lit.a),
     ListV(<<ListV(<<StrV(Lit.a), IntV(1)>>),
             ListV(<<StrV(Lit.b), IntV(2)>>)>>),
     DictV(<<<<StrV(Lit.b), IntV(2)>>, <<StrV(Lit.a), IntV(1)>>>>),
     ItemV("Track", <<<<StrV(Lit.name), StrV(Lit.spam)>>>>),
     DictV(<<<<StrV(Lit.track), Named(Lit.spam)>>>>),
     ItemV("Item", <<<<StrV(Lit.a), IntV(3)>>>>),
     IntV(1),
     DictV(<<>>)}

RECURSIVE SeqsUpTo(_, _)
SeqsUpTo(S, n) ==
    IF n = 0 THEN {<<>>}
    ELSE LET shorter == SeqsUpTo(S, n - 1)
         IN  shorter \cup {Append(s, x) : s \in shorter, x \in S}

InitCollection ==
    /\ elems \in SeqsUpTo(Elements, MaxElems)
    /\ fields = <<>>
    /\ built = {}
    /\ NoQuery /\ NoResponse /\ NoFetch

\* c = cls(*elems)
NewCollection(cls) ==
    /\ built = {}
    /\ built' = {[how |-> "new", cls |-> cls, src |-> NoneV,
                  index |-> NoneV,
                  result |-> ItemsCollection_new(cls, elems)]}
    /\ UNCHANGED <<fields, elems, queryVars, responseVars, fetchVars>>

\* c[i:j]
GetSlice(i, j) ==
    /\ Cardinality(built) = 1
    /\ \E b \in built :
           /\ b.how = "new" /\ b.result.t = "ItemsCollection"
           /\ built' = built \cup
                  {[how |-> "getslice", cls |-> b.cls, src |-> b.result,
                    index |-> SliceV(i, j),
                    result |-> ItemsCollection_getslice(b.result, i, j)]}
    /\ UNCHANGED <<fields, elems, queryVars, responseVars, fetchVars>>

\* c[index]
GetItem(index) ==
    /\ Cardinality(built) = 1
    /\ \E b \in built :
           /\ b.how = "new" /\ b.result.t = "ItemsCollection"
           /\ built' = built \cup
                  {[how |-> "getitem", cls |-> b.cls, src |-> b.result,
                    index |-> index,
                    result |-> ItemsCollection_getitem(b.result, index)]}
    /\ UNCHANGED <<fields, elems, queryVars, responseVars, fetchVars>>

SliceBounds == {<<0, 1>>, <<1, 2>>, <<1, MaxElems>>}

NextCollection ==
    \/ \E cls \in {"ItemsCollection", "Tracks"} : NewCollection(cls)
    \/ \E s \in SliceBounds : GetSlice(s[1], s[2])
    \/ \E s \in SliceBounds : GetItem(SliceV(s[1], s[2]))
    \/ \E i \in {0, -1} : GetItem(IntV(i))

SpecCollection == InitCollection /\ [][NextCollection]_vars

\* What the constructor of cls is given by a record of built: the elements
\* the caller holds, or the elements of the source within the slice.
InputOf(b) ==
    IF b.how = "new" THEN elems
    ELSE TupleSlice(b.src.v, b.index.v[1], b.index.v[2])

\* The element e of a collection of cls stands for element k of the input.
StandsFor(cls, input, k, e) ==
    /\ Coerce(cls, input[k]).t = "Item"
    /\ PyEq(Coerce(cls, input[k]), e)

\* The place in the input where the element e first occurs.
FirstAt(cls, input, e) ==
    CHOOSE k \in 1..Len(input) :
        /\ StandsFor(cls, input, k, e)
        /\ \A h \in 1..(k - 1) : ~StandsFor(cls, input, h, e)

IsSliceOf(b) == b.how # "new" /\ b.index.t = "slice"

\* C7: a collection that was constructed, or sliced from a collection,
\* holds only instances of the item type of its class, no two of them
\* equal, in the order in which they first occur in the input; and a
\* slice is a collection of the class of its source.
C7_CollectionInvariant ==
    \A b \in built :
        /\ IsSliceOf(b) =>
               b.result.t = "ItemsCollection" /\ b.result.cls = b.src.cls
        /\ (b.how = "new" \/ IsSliceOf(b)) /\ b.result.t = "ItemsCollection"
           => LET c == b.result.v
                  input == InputOf(b)
              IN  /\ \A i \in 1..Len(c) : IsInstance(c[i], ItemType(b.cls))
                  /\ \A i, j \in 1..Len(c) : i < j => ~PyEq(c[i], c[j])
                  /\ \A i \in 1..Len(c) :
                         \E k \in 1..Len(input) :
                             StandsFor(b.cls, input, k, c[i])
                  /\ \A i, j \in 1..Len(c) :
                         i < j => FirstAt(b.cls, input, c[i])
                                      < FirstAt(b.cls, input, c[j])

\* A collection of two built from three elements, two of which are equal
\* once coerced, and a shorter, non-empty slice of it.
C7_Witness ==
    /\ \E b \in built :
           /\ b.how = "new" /\ Len(elems) = 3 /\ Len(b.result.v) = 2
           /\ \E h, k \in 1..3 :
                  /\ h < k
                  /\ StandsFor(b.cls, elems, h, Coerce(b.cls, elems[k]))
    /\ \E b \in built :
           /\ IsSliceOf(b) /\ b.result.t = "ItemsCollection"
           /\ Len(b.result.v) = 1 /\ Len(b.src.v) = 2

\* The element x is, or can be made into, an instance of the item type of
\* cls.
Coercible(cls, x) ==
    \/ IsInstance(x, ItemType(cls))
    \/ ~Raised(CoerceKeyed(ItemType(cls), str_keys(x)))

\* C8: constructing a collection does not fail whatever the elements are;
\* every element of the result stands for an element of the input that is
\* coercible, and every coercible element of the input is in the result,
\* up to equality.
C8_NoCoercibleDropped ==
    \A b \in built :
        b.how = "new" =>
            /\ b.result.t = "ItemsCollection"
            /\ \A i \in 1..Len(b.result.v) :
                   \E k \in 1..Len(elems) :
                       /\ Coercible(b.cls, elems[k])
                       /\ StandsFor(b.cls, elems, k, b.result.v[i])
            /\ \A k \in 1..Len(elems) :
                   Coercible(b.cls, elems[k]) =>
                       PyIn(IF IsInstance(elems[k], ItemType(b.cls))
                            THEN elems[k]
                            ELSE CoerceKeyed(ItemType(b.cls),
                                             str_keys(elems[k])),
                            b.result.v)

(***************************************************************************)
(* Method.__call__, Item.request, ItemsCollection.request and              *)
(* ItemsCollection.fromResponseMessage.                                    *)
(***************************************************************************)

\* The value a read of the response property gave, out of the heap.
Fetched(res) ==
    IF Raised(res.result) THEN res.result ELSE Deref(res.heap, res.result)
ResponseOf(made, reply) ==
    IF Raised(made.req) THEN made.req
    ELSE Fetched(Request_response(made.heap, made.req, reply))

\* Method.__call__(self, **query): query[format] = json, then
\* Request(self, query).response.
\* The Request of __call__ built from the query as the caller gave it.
Method_request_asgiven(m, query) ==
    Request_init(<<>>, m, DictV(query), <<>>)

\* The Request of __call__: query[format] = json; Request(self, query).
Method_request(m, query) ==
    Request_init(<<>>, m,
        DictV(Put(query, StrV(Lit.format), StrV(Lit.json))), <<>>)

Method_call(m, query, reply) == ResponseOf(Method_request(m, query), reply)

\* if not response.status: raise core.Error(str(response.status))
ErrorOf(st) ==
    IF Raised(st) THEN st
    ELSE IF ~ResponseStatus_nonzero(st)
    THEN RaiseWith("Error", ResponseStatus_str(st))
    ELSE NoneV

\* The end of Item.request: the status is tested, then cls(**str_keys(
\* response)).
Item_fromResponse(cls, response, failure) ==
    IF Raised(failure) THEN failure
    ELSE CoerceKeyed(cls, str_keys(response))

\* Item.request(cls, **kwargs): response = cls.api_method(**kwargs), a
\* TypeError becoming NotImplementedError.
Item_requested(cls, response) ==
    IF Raised(response)
    THEN IF response.v.exc = "TypeError"
         THEN RaiseWith("NotImplementedError", cls \o ".api_method")
         ELSE response
    ELSE Item_fromResponse(cls, response, ErrorOf(Response_status(response)))
Item_request(cls, kwargs, reply) ==
    IF ApiMethod(cls).t = "none"
    THEN Item_requested(cls, Raise("TypeError"))
    ELSE Item_requested(cls, Method_call(ApiMethod(cls), kwargs, reply))

\* cls(*[i for i in response[cls.label]])
Collection_fromList(cls, xs) ==
    IF Raised(xs) THEN xs ELSE ItemsCollection_new(cls, xs.v)
Collection_fromResponse(cls, response, failure) ==
    IF Raised(failure) THEN failure
    ELSE Collection_fromList(cls, StarArgs(Subscript(response, Label(cls))))

\* ItemsCollection.fromResponseMessage(cls, response)
ItemsCollection_fromResponseMessage(cls, response) ==
    Collection_fromResponse(cls, response,
                            ErrorOf(Response_status(response)))

\* ItemsCollection.request(cls, method, **kwargs)
Collection_requested(cls, response) ==
    IF Raised(response) THEN response
    ELSE ItemsCollection_fromResponseMessage(cls, response)
ItemsCollection_request(cls, method, kwargs, reply) ==
    Collection_requested(cls, Method_call(method, kwargs, reply))

(***************************************************************************)
(* SpecEntity: the server answers every call with one reply; the caller    *)
(* requests Items and collections with its parameters, and builds          *)
(* collections from a Response it holds.                                   *)
(***************************************************************************)
Answer(inner) == JsonText(DictV(<<<<StrV(Lit.response), inner>>>>))
Failure(code) == DictV(<<<<StrV(Lit.error),
                          DictV(<<<<StrV(Lit.code), code>>,
                                  <<StrV(Lit.description),
                                    StrV(Lit.spam)>>>>)>>,
                        <<StrV(Lit.artists), ListV(<<Named(Lit.a)>>)>>,
                        <<StrV(Lit.name), StrV(Lit.ab)>>>>)

EntityReplies ==
    {Reply("ok", Answer(DictV(<<<<StrV(Lit.track), Named(Lit.spam)>>>>))),
     Reply("ok", Answer(DictV(<<<<StrV(Lit.name), StrV(Lit.spam)>>,
                               <<StrV(Lit.artists),
                                 ListV(<<Named(Lit.a), Named(Lit.b),
                                         Named(Lit.a)>>)>>>>))),
     Reply("ok", Answer(DictV(<<>>))),
     Reply("ok", Answer(Failure(IntV(13000)))),
     Reply("ok", Answer(Failure(IntV(0)))),
     Reply("ok", Answer(Failure(IntV(200)))),
     Reply("ok", Answer(Failure(StrV(Lit.x1A)))),
     Reply("HTTPError", Answer(Failure(StrV(Lit.n14031)))),
     Reply("HTTPError", Answer(Failure(IntV(777)))),
     Reply("HTTPError", NotJson),
     Reply("URLError", NotJson)}

InitEntity ==
    /\ body \in EntityReplies
    /\ params \in SubLists(RequestParams, MaxParams)
    /\ target \in Targets
    /\ built = {}
    /\ queries = {} /\ heap = <<>> /\ requests = {}
    /\ parsed = <<>> /\ status = <<>>
    /\ fields = <<>> /\ elems = <<>>
    /\ NoFetch

Record(op, cls, response, result) ==
    /\ \A b \in built : b.op # op \/ b.cls # cls
    /\ built' = built \cup {[op |-> op, cls |-> cls, response |-> response,
                             result |-> result]}
    /\ UNCHANGED <<body, params, target, queries, heap, requests, parsed,
                   status, fields, elems, fetchVars>>

\* cls.request(**params) for an Item class; the record keeps the Response
\* the call got.
ItemRequest(cls) ==
    Record("Item.request", cls,
           IF ApiMethod(cls).t = "none" THEN NoneV
           ELSE Method_call(ApiMethod(cls), params, body),
           Item_request(cls, params, body))

\* cls.request(method, **params) for a collection class.
CollectionRequest(cls) ==
    Record("ItemsCollection.request", cls,
           Method_call(MethodV(target), params, body),
           ItemsCollection_request(cls, MethodV(target), params, body))

\* cls.fromResponseMessage(r) for a Response r the caller built from the
\* reply.
FromResponseMessage(cls) ==
    /\ body.kind # "URLError"
    /\ ~Raised(Response_init(body.text))
    /\ Record("fromResponseMessage", cls, Response_init(body.text),
              ItemsCollection_fromResponseMessage(
                  cls, Response_init(body.text)))

NextEntity ==
    \/ \E cls \in ItemClasses : ItemRequest(cls)
    \/ \E cls \in {"Artists"} : CollectionRequest(cls)
    \/ \E cls \in {"ItemsCollection", "Artists", "Tracks"} :
           FromResponseMessage(cls)

SpecEntity == InitEntity /\ [][NextEntity]_vars

\* C9: Item.request, ItemsCollection.request and fromResponseMessage,
\* working on a Response whose status is not success (200), raise Error
\* with the description of the status; what they return as an Item or a
\* collection was built from a Response whose status is success.
C9_NoObjectUnlessSuccess ==
    \A b \in built :
        b.response.t = "Response" =>
            LET st == Response_status(b.response)
            IN  /\ st.t = "ResponseStatus" /\ st.v # 200 =>
                       b.result = RaiseWith("Error", ResponseStatus_str(st))
                /\ b.result.t \in {"Item", "ItemsCollection"} =>
                       st = ResponseStatusV(200)

\* Item.request and fromResponseMessage each worked on a Response whose
\* status is 14031 and raised Error with its description.
C9_Witness ==
    \A op \in {"Item.request", "fromResponseMessage"} :
        \E b \in built :
            /\ b.op = op /\ b.response.t = "Response"
            /\ Response_status(b.response) = ResponseStatusV(14031)
            /\ b.result = RaiseWith("Error", "Invalid or missing apikey")


(***************************************************************************)
(* Method.__getattribute__                                                 *)
(***************************************************************************)

\* __getattribute__ without the dot between the two names.
Method_getattribute_nodot(m, name) ==
    IF name # <<>> /\ Head(name) = "_"
    THEN IF name = Lit.dunder_len THEN [t |-> "attribute", v |-> name]
         ELSE Raise("AttributeError")
    ELSE Method_new(StrV(m.v \o name))

\* __getattribute__(self, name).  A name that starts with an underscore is
\* looked up in the str: __len__ stands for the attributes a str has, any
\* other such name raises AttributeError.  Every other name gives
\* Method(.join([self, name])) with the dot as the separator.
Method_getattribute(m, name) ==
    IF name # <<>> /\ Head(name) = "_"
    THEN IF name = Lit.dunder_len THEN [t |-> "attribute", v |-> name]
         ELSE Raise("AttributeError")
    ELSE Method_new(StrV(m.v \o <<".">> \o name))

(***************************************************************************)
(* SpecMethod: the caller holds a root Method and reads attributes of it   *)
(* and of the Methods the reads gave, and calls them with keyword          *)
(* parameters.  heap holds the Methods, the root first; built records      *)
(* every read and requests every call with the URLs it fetched.            *)
(***************************************************************************)
InitMethod ==
    /\ target \in {Lit.artist, Lit.album}
    /\ heap = <<Method_new(StrV(target))>>
    /\ built = {}
    /\ params = <<>> /\ queries = {} /\ requests = {}
    /\ fields = <<>> /\ elems = <<>>
    /\ NoResponse /\ NoFetch

\* heap[i].name, for the i-th Method the caller holds.
GetAttribute(i, name) ==
    /\ Cardinality(built) + Cardinality(requests) < MaxChain
    /\ LET got == Method_getattribute(heap[i], name)
       IN  /\ heap' = IF got.t = "Method" THEN Append(heap, got) ELSE heap
           /\ built' = built \cup
                  {[of |-> i, was |-> heap[i], name |-> name, got |-> got,
                    at |-> IF got.t = "Method" THEN Len(heap) + 1 ELSE 0]}
    /\ UNCHANGED <<params, queries, target, requests, fields, elems>>
    /\ UNCHANGED <<responseVars, fetchVars>>

\* heap[i](**query): the Request is built and its response read, the
\* network answering with reply.
Call(i, query, reply) ==
    /\ Cardinality(built) + Cardinality(requests) < MaxChain
    /\ LET made == Method_request(heap[i], query)
           res == Request_response(made.heap, made.req, reply)
       IN  requests' = requests \cup
               {[of |-> i, query |-> query, gets |-> res.gets,
                 result |-> Method_call(heap[i], query, reply)]}
    /\ UNCHANGED <<params, queries, target, heap, fields, elems, built>>
    /\ UNCHANGED <<responseVars, fetchVars>>

NextMethod ==
    \E i \in 1..Len(heap) :
        \/ \E name \in {Lit.getAlbums, Lit.get, Lit.upper, <<>>,
                        Lit.private, Lit.dunder_len} :
               GetAttribute(i, name)
        \/ \E query \in {<<>>,
                         <<<<StrV(Lit.albumCode), IntV(782378)>>>>,
                         <<<<StrV(Lit.format), StrV(Lit.xml)>>,
                           <<StrV(Lit.apikey), StrV(Lit.r_and_b)>>>>} :
               \E reply \in {Reply("ok", Answer(DictV(<<>>))),
                              Reply("URLError", NotJson)} :
                   Call(i, query, reply)

SpecMethod == InitMethod /\ [][NextMethod]_vars

\* The names read, in order, on the way from the root to the Method at
\* place k of heap.
RECURSIVE NamesTo(_)
NamesTo(k) ==
    IF k = 1 THEN <<>>
    ELSE LET b == CHOOSE b \in built : b.at = k
         IN  Append(NamesTo(b.of), b.name)

\* The characters of root.n1.n2...
RECURSIVE Dotted(_, _)
Dotted(root, names) ==
    IF names = <<>> THEN root
    ELSE Dotted(root, SubSeq(names, 1, Len(names) - 1))
             \o <<".">> \o names[Len(names)]

\* C11: reading the attribute n of a Method p, n not starting with an
\* underscore, gives a new Method equal to p + . + n and leaves p as it
\* was; a chain of such reads gives the root and the names joined by dots
\* in the order of the reads.
C11_DottedChain ==
    /\ \A b \in built :
           /\ heap[b.of] = b.was
           /\ (b.name = <<>> \/ Head(b.name) # "_") =>
                  /\ b.got.t = "Method"
                  /\ b.got.v = b.was.v \o <<".">> \o b.name
                  /\ heap[b.at] = b.got
    /\ \A k \in 1..Len(heap) :
           /\ heap[k].t = "Method"
           /\ heap[k].v = Dotted(target, NamesTo(k))

\* A chain of three reads from the root, whose last Method has three dots.
C11_Witness ==
    /\ Len(heap) = 4
    /\ Len(NamesTo(4)) = 3
    /\ \E b \in built : b.at = 4 /\ b.of = 3 /\ b.name = Lit.getAlbums


\* The places of a URL where a parameter named format begins.
FormatAt(url) ==
    {i \in 2..Len(url) - 6 :
        /\ url[i - 1] \in {"?", "&"}
        /\ SubSeq(url, i, i + 6) = SubSeq(Lit.format_json, 1, 7)}

\* The parameter that begins at place i of a URL, up to the next & or the
\* end.
ParameterAt(url, i) ==
    LET ends == {j \in i..Len(url) : j = Len(url) \/ url[j + 1] = "&"}
        last == CHOOSE j \in ends : \A k \in ends : j <= k
    IN  SubSeq(url, i, last)

\* C12: every call of a Method with keyword parameters fetches one URL,
\* whose query holds the parameter format=json and no other value of
\* format, whatever the caller passed, a format of its own included.
C12_FormatJson ==
    \A c \in requests :
        /\ Len(c.gets) = 1
        /\ FormatAt(c.gets[1]) # {}
        /\ \A i \in FormatAt(c.gets[1]) :
               ParameterAt(c.gets[1], i) = Lit.format_json

\* A call whose caller passed format=xml next to another parameter, on a
\* Method read from the root, and a call without parameters.
C12_Witness ==
    /\ \E c \in requests :
           /\ c.of > 1
           /\ HasKey(c.query, StrV(Lit.format))
           /\ Get(c.query, StrV(Lit.format)) = StrV(Lit.xml)
           /\ Len(c.gets) = 1
           /\ Len(c.gets[1]) > Len(Lit.base) + Len(heap[c.of].v) + 12
    /\ \E c \in requests : c.query = <<>>


(***************************************************************************)
(* SpecShared: the caller holds one QueryString, at place 1 of heap, and   *)
(* builds Requests from it, each with keyword arguments of its own.  Each  *)
(* Request is recorded with its URL and hash as they were once built.      *)
(***************************************************************************)
InitShared ==
    /\ params \in SubLists(RequestParams, MaxParams)
    /\ target \in Targets
    /\ heap = <<QueryString_init(DictV(params), <<>>)>>
    /\ requests = {}
    /\ queries = {}
    /\ NoResponse /\ NoFetch /\ NoItem

\* Request(api_method, query_string, **kwargs) with the QueryString the
\* caller holds.
NewShared(kwargs) ==
    /\ Cardinality(requests) < MaxRequests
    /\ LET res == Request_init(heap, MethodV(target), RefV(1), kwargs)
       IN  /\ heap' = res.heap
           /\ requests' = requests \cup
                  {[r |-> res.req, kwargs |-> kwargs,
                    url |-> Request_str(res.heap, res.req),
                    hash |-> Request_hash(res.heap, res.req)]}
    /\ UNCHANGED <<params, target, queries>>
    /\ UNCHANGED <<responseVars, fetchVars, itemVars>>

NextShared ==
    \E kwargs \in {<<>>,
                   <<<<StrV(Lit.format), StrV(Lit.json)>>>>,
                   <<<<StrV(Lit.albumCode), IntV(1)>>>>,
                   <<<<StrV(Lit.country), StrV(Lit.xml)>>,
                     <<StrV(Lit.format), StrV(Lit.xml)>>>>} :
        NewShared(kwargs)

SpecShared == InitShared /\ [][NextShared]_vars

\* C13: building a Request from the QueryString of the caller and keyword
\* arguments leaves that QueryString as the caller made it, and the URL and
\* the hash of a Request stay what they were when it was built, whatever
\* Requests are built from the same QueryString later.
C13_NoSharedState ==
    /\ heap[1] = QueryString_init(DictV(params), <<>>)
    /\ \A a \in requests :
           /\ Request_str(heap, a.r) = a.url
           /\ Request_hash(heap, a.r) = a.hash

=============================================================================
